---- MODULE Spec2Model ----
(***************************************************************************)
(* Disk-head scheduling engine (DiskScheduler of disk_logic.py): FCFS,     *)
(* SSTF, SCAN and C-SCAN over a request list and an initial head.          *)
(* One engine object is constructed in Init and simulate is called on it   *)
(* repeatedly; every loop iteration of an algorithm is one step.           *)
(***************************************************************************)
EXTENDS Integers, Sequences, FiniteSets, TLC

\* ---- configuration constants of the program ----
MAX_TRACK == 199
MIN_TRACK == 0
SEEK_TIME_PER_TRACK == 1

\* ---- bounds of the model ----
MaxLen == 2
Edge == 1
MaxFields == 2

\* Tracks the inputs are drawn from: the low end of the disk and MAX_TRACK.
Tracks == {t \in MIN_TRACK..MAX_TRACK : t <= MIN_TRACK + Edge \/ t = MAX_TRACK}
RequestLists == UNION {[1..n -> Tracks] : n \in 0..MaxLen}
\* The request list and the head the program starts with in its input fields.
DefaultRequests == <<82, 170, 43, 140, 24, 16, 190>>
DefaultHead == 50
\* "LOOK" stands for any name simulate does not know, "LEFT" for any
\* direction other than UP and DOWN.
Algorithms == {"FCFS", "SSTF", "SCAN", "C-SCAN", "LOOK"}
Directions == {"UP", "DOWN", "LEFT"}

VARIABLES initial_requests, initial_head, head_position, total_seek_time,
          movement_sequence, requests, algorithm, direction,
          current_requests, sequence, idx, pc, result, calls,
          head_var, requests_var, message, constructed

\* the window: its two input fields, the last message it showed, and whether
\* it has constructed a DiskScheduler
gui_vars == <<head_var, requests_var, message, constructed>>

vars == <<initial_requests, initial_head, head_position, total_seek_time,
          movement_sequence, requests, algorithm, direction,
          current_requests, sequence, idx, pc, result, calls,
          head_var, requests_var, message, constructed>>

\* ---- builtins ----
Abs(x) == IF x < 0 THEN -x ELSE x

Reverse(s) == [i \in 1..Len(s) |-> s[Len(s) + 1 - i]]

RECURSIVE Insert(_, _)
Insert(x, s) ==
    IF s = <<>> THEN <<x>>
    ELSE IF x < Head(s) THEN <<x>> \o s
    ELSE <<Head(s)>> \o Insert(x, Tail(s))

\* sorted(s): stable ascending sort
RECURSIVE Sorted(_)
\* a sort that leaves the list as it was given
SortedAsGiven(s) == s

Sorted(s) == IF s = <<>> THEN <<>> ELSE Insert(s[Len(s)], Sorted(SubSeq(s, 1, Len(s) - 1)))

\* sorted(s, reverse=True)
SortedReverse(s) == Reverse(Sorted(s))

\* a removal of every entry equal to x
RemoveEvery(s, x) == SelectSeq(s, LAMBDA y : y # x)

\* list.remove(x): drops the first entry equal to x
Remove(s, x) ==
    LET i == CHOOSE k \in 1..Len(s) : s[k] = x /\ \A j \in 1..(k - 1) : s[j] # x
    IN  SubSeq(s, 1, i - 1) \o SubSeq(s, i + 1, Len(s))

\* ---- Python floats ----
\* A float is an IEEE 754 double: sig, the Precision bits of its significand
\* (most significant first, sig[1] = 1), and exp, the exponent of the last
\* bit; its value is sig * 2^exp.  Zero has no bits.  The magnitudes of this
\* program stay far from overflow and from the subnormal range.
Precision == 53
Zero == [sig |-> <<>>, exp |-> 0]

\* b * n + c, for a natural b given by its bits, least significant first
RECURSIVE MulAdd(_, _, _)
MulAdd(b, n, c) ==
    IF b = <<>>
    THEN (IF c = 0 THEN <<>> ELSE <<c % 2>> \o MulAdd(<<>>, n, c \div 2))
    ELSE <<(Head(b) * n + c) % 2>> \o MulAdd(Tail(b), n, (Head(b) * n + c) \div 2)

\* the bits of a natural, most significant first
NatBits(a) == Reverse(MulAdd(<<>>, 1, a))

\* round-to-nearest, ties-to-even, of the value bits * 2^e (plus a non-zero
\* remainder below the last bit when sticky) to Precision bits
RoundBits(bits, e, sticky) ==
    IF Len(bits) <= Precision
    THEN [sig |-> bits \o [i \in 1..(Precision - Len(bits)) |-> 0],
          exp |-> e - (Precision - Len(bits))]
    ELSE LET keep == SubSeq(bits, 1, Precision)
             guard == bits[Precision + 1]
             rest == sticky \/ \E i \in (Precision + 2)..Len(bits) : bits[i] = 1
             e1 == e + (Len(bits) - Precision)
             up == Reverse(MulAdd(Reverse(keep), 1, 1))
         IN  IF guard = 1 /\ (rest \/ keep[Precision] = 1)
             THEN (IF Len(up) > Precision
                   THEN [sig |-> SubSeq(up, 1, Precision), exp |-> e1 + 1]
                   ELSE [sig |-> up, exp |-> e1])
             ELSE [sig |-> keep, exp |-> e1]

\* float(a) for a natural a
FromInt(a) == IF a = 0 THEN Zero ELSE RoundBits(NatBits(a), 0, FALSE)

\* long division r / b continued below the binary point until Precision + 1
\* significant bits are known; e is the exponent of the last bit of bits
RECURSIVE DivBits(_, _, _, _)
DivBits(r, b, bits, e) ==
    IF Len(bits) > Precision THEN [bits |-> bits, exp |-> e, rem |-> r]
    ELSE IF 2 * r >= b
         THEN DivBits(2 * r - b, b, Append(bits, 1), e - 1)
         ELSE DivBits(2 * r, b, IF bits = <<>> THEN bits ELSE Append(bits, 0), e - 1)

\* a / b for naturals a and b > 0: the double nearest to the quotient
Quot(a, b) ==
    IF a = 0 THEN Zero
    ELSE LET d == DivBits(a % b, b, NatBits(a \div b), 0)
         IN  RoundBits(d.bits, d.exp, d.rem # 0)

\* f * n for a float f and a natural n: the double nearest to the product
FloatTimes(f, n) ==
    IF f = Zero \/ n = 0 THEN Zero
    ELSE RoundBits(Reverse(MulAdd(Reverse(f.sig), n, 0)), f.exp, FALSE)

\* ---- the engine ----
\* the three fields every algorithm updates
Engine(h, t, m) == [head_position |-> h, total_seek_time |-> t, movement_sequence |-> m]

\* __init__: the engine as constructed
Construct(head) == Engine(head, 0, <<head>>)

\* a reset that forgets the seek accumulator
ResetKeepSeek(e, head) == Engine(head, e.total_seek_time, <<head>>)

\* the reset at the start of simulate
Reset(e, head) == Engine(head, 0, <<head>>)

\* insert(0, next_track) instead of append(next_track)
ServiceInsertFront(e, next_track, seek) ==
    Engine(next_track, e.total_seek_time + seek, <<next_track>> \o e.movement_sequence)

\* total_seek_time += seek; head_position = next_track; movement_sequence.append(next_track)
Service(e, next_track, seek) ==
    Engine(next_track, e.total_seek_time + seek, Append(e.movement_sequence, next_track))

\* pop() instead of pop(0)
FcfsBodyPopLast(e, cur) ==
    LET next_track == cur[Len(cur)]
    IN  [e |-> Service(e, next_track, Abs(next_track - e.head_position)),
         cur |-> SubSeq(cur, 1, Len(cur) - 1)]

\* a seek measured after the head has been moved to the track
FcfsBodyMoveFirst(e, cur) ==
    LET next_track == Head(cur)
    IN  [e |-> Service(e, next_track, Abs(next_track - next_track)), cur |-> Tail(cur)]

\* one iteration of _fcfs
FcfsBody(e, cur) ==
    LET next_track == Head(cur)
    IN  [e |-> Service(e, next_track, Abs(next_track - e.head_position)), cur |-> Tail(cur)]

\* a minimum that keeps the last entry of least distance
SstfNextLast(cur, head) ==
    LET best[i \in 1..Len(cur)] ==
            IF i = 1 THEN cur[1]
            ELSE IF Abs(cur[i] - head) <= Abs(best[i - 1] - head) THEN cur[i] ELSE best[i - 1]
    IN  best[Len(cur)]

\* min(current_requests, key=|track - head|): the first entry of least distance
SstfNext(cur, head) ==
    LET best[i \in 1..Len(cur)] ==
            IF i = 1 THEN cur[1]
            ELSE IF Abs(cur[i] - head) < Abs(best[i - 1] - head) THEN cur[i] ELSE best[i - 1]
    IN  best[Len(cur)]

\* a selection that measures from the head the run started on
SstfBodyStaleHead(e, cur) ==
    LET next_track == SstfNext(cur, e.movement_sequence[1])
    IN  [e |-> Service(e, next_track, Abs(next_track - e.head_position)),
         cur |-> Remove(cur, next_track)]

\* one iteration of _sstf
SstfBody(e, cur) ==
    LET next_track == SstfNext(cur, e.head_position)
    IN  [e |-> Service(e, next_track, Abs(next_track - e.head_position)),
         cur |-> Remove(cur, next_track)]

Lower(reqs, current_head) == SelectSeq(reqs, LAMBDA r : r < current_head)
\* a partition that loses the requests equal to the head
UpperStrict(reqs, current_head) == SelectSeq(reqs, LAMBDA r : r > current_head)
Upper(reqs, current_head) == SelectSeq(reqs, LAMBDA r : r >= current_head)

\* boundaries of a disk taken one track too long
BoundariesOffByOne(alg, dir) ==
    IF dir = "UP"
    THEN (IF alg = "SCAN" THEN <<MAX_TRACK + 1>> ELSE <<MAX_TRACK + 1, MIN_TRACK>>)
    ELSE (IF alg = "SCAN" THEN <<MIN_TRACK>> ELSE <<MIN_TRACK, MAX_TRACK + 1>>)

\* C-SCAN with the turn-around boundary only
BoundariesSingle(alg, dir) == IF dir = "UP" THEN <<MAX_TRACK>> ELSE <<MIN_TRACK>>

\* SCAN that turns round at its last request and never visits the boundary
BoundariesLook(alg, dir) ==
    IF dir = "UP"
    THEN (IF alg = "SCAN" THEN <<>> ELSE <<MAX_TRACK, MIN_TRACK>>)
    ELSE (IF alg = "SCAN" THEN <<>> ELSE <<MIN_TRACK, MAX_TRACK>>)

Boundaries(alg, dir) ==
    IF dir = "UP"
    THEN (IF alg = "SCAN" THEN <<MAX_TRACK>> ELSE <<MAX_TRACK, MIN_TRACK>>)
    ELSE (IF alg = "SCAN" THEN <<MIN_TRACK>> ELSE <<MIN_TRACK, MAX_TRACK>>)

\* SCAN whose second leg is left as sorted
ScanSequenceNoReverse(alg, dir, reqs, current_head) ==
    LET sorted_requests == Sorted(reqs)
        lower == Lower(sorted_requests, current_head)
        upper == SelectSeq(sorted_requests, LAMBDA r : r >= current_head)
        current_list == IF dir = "UP" THEN Sorted(upper) ELSE SortedReverse(lower)
        other_list == IF dir = "UP" THEN Sorted(lower) ELSE SortedReverse(upper)
        bounds == IF dir = "UP"
                  THEN (IF alg = "SCAN" THEN <<MAX_TRACK>> ELSE <<MAX_TRACK, MIN_TRACK>>)
                  ELSE (IF alg = "SCAN" THEN <<MIN_TRACK>> ELSE <<MIN_TRACK, MAX_TRACK>>)
    IN  current_list \o bounds \o other_list

\* C-SCAN whose second leg turns round as SCAN's does
ScanSequenceCscanReversing(alg, dir, reqs, current_head) ==
    LET sorted_requests == Sorted(reqs)
        lower == Lower(sorted_requests, current_head)
        upper == SelectSeq(sorted_requests, LAMBDA r : r >= current_head)
        current_list == IF dir = "UP" THEN Sorted(upper) ELSE SortedReverse(lower)
        other_list == IF dir = "UP" THEN SortedReverse(lower) ELSE Sorted(upper)
        bounds == IF dir = "UP"
                  THEN (IF alg = "SCAN" THEN <<MAX_TRACK>> ELSE <<MAX_TRACK, MIN_TRACK>>)
                  ELSE (IF alg = "SCAN" THEN <<MIN_TRACK>> ELSE <<MIN_TRACK, MAX_TRACK>>)
    IN  current_list \o bounds \o other_list

\* the sequence _scan_or_cscan builds before its loop, for dir in {UP, DOWN}
ScanSequence(alg, dir, reqs, current_head) ==
    LET sorted_requests == Sorted(reqs)
        lower == Lower(sorted_requests, current_head)
        upper == Upper(sorted_requests, current_head)
        current_list == IF dir = "UP" THEN Sorted(upper) ELSE SortedReverse(lower)
        other_sorted == IF dir = "UP" THEN Sorted(lower) ELSE SortedReverse(upper)
        other_list == IF alg = "SCAN" THEN Reverse(other_sorted) ELSE other_sorted
    IN  IF alg = "SCAN"
        THEN current_list \o Boundaries(alg, dir) \o other_list
        ELSE current_list \o Boundaries(alg, dir)
                 \o (IF dir = "UP" THEN Sorted(lower) ELSE SortedReverse(upper))

\* a sweep that charges the wrap like any other move
SeekNoFreeJump(alg, head, next_track) == Abs(next_track - head)

\* the free jump granted whatever the algorithm
SeekAnyAlgorithm(alg, head, next_track) ==
    IF (head = MAX_TRACK /\ next_track = MIN_TRACK) \/ (head = MIN_TRACK /\ next_track = MAX_TRACK)
    THEN 0
    ELSE Abs(next_track - head)

\* the seek charged for one transition of the _scan_or_cscan loop
Seek(alg, head, next_track) ==
    IF alg = "C-SCAN" /\ (   (head = MAX_TRACK /\ next_track = MIN_TRACK)
                          \/ (head = MIN_TRACK /\ next_track = MAX_TRACK))
    THEN 0
    ELSE Abs(next_track - head)

\* a sweep iteration that forgets to move the head
ScanBodyKeepHead(alg, e, seq, i) ==
    Engine(e.head_position, e.total_seek_time + Seek(alg, e.head_position, seq[i]),
           Append(e.movement_sequence, seq[i]))

\* one iteration of the _scan_or_cscan loop, at position i of seq
ScanBody(alg, e, seq, i) ==
    Service(e, seq[i], Seek(alg, e.head_position, seq[i]))

\* an average taken with floor division
CalculateMetricsFloorDiv(total, reqs) ==
    LET total_time == total * SEEK_TIME_PER_TRACK
        num_requests == Len(reqs)
    IN  [total_seek |-> total,
         avg_seek |-> IF num_requests # 0 THEN FromInt(total \div num_requests) ELSE Zero,
         throughput |-> IF total_time > 0 THEN Quot(num_requests, total_time) ELSE Zero]

\* a throughput with numerator and denominator exchanged
CalculateMetricsInverted(total, reqs) ==
    LET total_time == total * SEEK_TIME_PER_TRACK
        num_requests == Len(reqs)
    IN  [total_seek |-> total,
         avg_seek |-> IF num_requests # 0 THEN Quot(total, num_requests) ELSE Zero,
         throughput |-> IF total_time > 0 /\ num_requests > 0
                        THEN Quot(total_time, num_requests) ELSE Zero]

\* _calculate_metrics
CalculateMetrics(total, reqs) ==
    LET total_time == total * SEEK_TIME_PER_TRACK
        num_requests == Len(reqs)
    IN  [total_seek |-> total,
         avg_seek |-> IF num_requests # 0 THEN Quot(total, num_requests) ELSE Zero,
         throughput |-> IF total_time > 0 THEN Quot(num_requests, total_time) ELSE Zero]

\* what a simulate call hands back: the four-tuple, four Nones, or an exception
Returned(e, reqs) ==
    LET m == CalculateMetrics(e.total_seek_time, reqs)
    IN  [kind |-> "tuple", movement_sequence |-> e.movement_sequence,
         total_seek |-> m.total_seek, avg_seek |-> m.avg_seek, throughput |-> m.throughput]
NoneResult ==
    [kind |-> "none", movement_sequence |-> <<>>, total_seek |-> 0, avg_seek |-> Zero, throughput |-> Zero]
Raised ==
    [kind |-> "raised", movement_sequence |-> <<>>, total_seek |-> 0, avg_seek |-> Zero, throughput |-> Zero]
Pending ==
    [kind |-> "pending", movement_sequence |-> <<>>, total_seek |-> 0, avg_seek |-> Zero, throughput |-> Zero]

\* a dispatch that runs FCFS for a name it does not know
DispatchDefaultFcfs(alg) ==
    IF alg = "SSTF" THEN "sstf_enter"
    ELSE IF alg \in {"SCAN", "C-SCAN"} THEN "scan_enter"
    ELSE "fcfs_enter"

\* the branch simulate takes for an algorithm name
Dispatch(alg) ==
    IF alg = "FCFS" THEN "fcfs_enter"
    ELSE IF alg = "SSTF" THEN "sstf_enter"
    ELSE IF alg \in {"SCAN", "C-SCAN"} THEN "scan_enter"
    ELSE "done"

\* the whole loop of _fcfs, _sstf and _scan_or_cscan
RECURSIVE FcfsLoop(_, _)
FcfsLoop(e, cur) ==
    IF cur = <<>> THEN e ELSE FcfsLoop(FcfsBody(e, cur).e, FcfsBody(e, cur).cur)

RECURSIVE SstfLoop(_, _)
SstfLoop(e, cur) ==
    IF cur = <<>> THEN e ELSE SstfLoop(SstfBody(e, cur).e, SstfBody(e, cur).cur)

RECURSIVE ScanLoop(_, _, _, _)
ScanLoop(alg, e, seq, i) ==
    IF i > Len(seq) THEN e ELSE ScanLoop(alg, ScanBody(alg, e, seq, i), seq, i + 1)

\* DiskScheduler(reqs, head).simulate(alg, dir): the first call on a new engine
FreshSimulate(reqs, head, alg, dir) ==
    LET e0 == Reset(Construct(head), head)
    IN  IF Dispatch(alg) = "fcfs_enter" THEN Returned(FcfsLoop(e0, reqs), reqs)
        ELSE IF Dispatch(alg) = "sstf_enter" THEN Returned(SstfLoop(e0, reqs), reqs)
        ELSE IF Dispatch(alg) = "scan_enter"
        THEN (IF dir \in {"UP", "DOWN"}
              THEN Returned(ScanLoop(alg, e0, ScanSequence(alg, dir, reqs, head), 1), reqs)
              ELSE Raised)
        ELSE NoneResult

\* ---- the engine of disk_sheduling.py ----
\* The second copy of DiskScheduler has the constants, __init__,
\* _calculate_metrics, simulate, _fcfs, _sstf and the sweep loop of the first,
\* statement for statement; it differs in how _scan_or_cscan orders other_list.

\* a second leg that is sorted into sweep order and then reversed as well
ShedulingScanSequenceReversedAgain(alg, dir, reqs, current_head) ==
    LET sorted_requests == Sorted(reqs)
        lower == Lower(sorted_requests, current_head)
        upper == Upper(sorted_requests, current_head)
        current_list == IF dir = "UP" THEN Sorted(upper) ELSE SortedReverse(lower)
        other_list == IF dir = "UP" THEN Reverse(SortedReverse(lower)) ELSE Reverse(Sorted(upper))
    IN  IF alg = "SCAN"
        THEN current_list \o Boundaries(alg, dir) \o other_list
        ELSE current_list \o Boundaries(alg, dir)
                 \o (IF dir = "UP" THEN Sorted(lower) ELSE SortedReverse(upper))

\* the sequence its _scan_or_cscan builds: other_list is sorted straight into
\* the order of the second leg and never reversed
ShedulingScanSequence(alg, dir, reqs, current_head) ==
    LET sorted_requests == Sorted(reqs)
        lower == Lower(sorted_requests, current_head)
        upper == Upper(sorted_requests, current_head)
        current_list == IF dir = "UP" THEN Sorted(upper) ELSE SortedReverse(lower)
        other_list == IF dir = "UP" THEN SortedReverse(lower) ELSE Sorted(upper)
    IN  IF alg = "SCAN"
        THEN current_list \o Boundaries(alg, dir) \o other_list
        ELSE current_list \o Boundaries(alg, dir)
                 \o (IF dir = "UP" THEN Sorted(lower) ELSE SortedReverse(upper))

\* its DiskScheduler(reqs, head).simulate(alg, dir)
ShedulingSimulate(reqs, head, alg, dir) ==
    LET e0 == Reset(Construct(head), head)
    IN  IF Dispatch(alg) = "fcfs_enter" THEN Returned(FcfsLoop(e0, reqs), reqs)
        ELSE IF Dispatch(alg) = "sstf_enter" THEN Returned(SstfLoop(e0, reqs), reqs)
        ELSE IF Dispatch(alg) = "scan_enter"
        THEN (IF dir \in {"UP", "DOWN"}
              THEN Returned(ScanLoop(alg, e0, ShedulingScanSequence(alg, dir, reqs, head), 1), reqs)
              ELSE Raised)
        ELSE NoneResult

\* ---- the window's input fields ----
\* The text between two commas, or of the head field, is kept as what int()
\* and strip() make of it: the integer it denotes, a text int() rejects, or
\* nothing but blanks.
IntText(v) == [kind |-> "int", val |-> v]
WordText == [kind |-> "text", val |-> 0]
BlankText == [kind |-> "blank", val |-> 0]
FieldValues == {MIN_TRACK - 1, MIN_TRACK, MAX_TRACK, MAX_TRACK + 1}
Texts == {IntText(v) : v \in FieldValues} \cup {WordText, BlankText}
\* split(',') returns at least one piece
RequestTexts == UNION {[1..n -> Texts] : n \in 1..MaxFields}
DefaultRequestTexts == [i \in DOMAIN DefaultRequests |-> IntText(DefaultRequests[i])]
GuiAlgorithms == {"FCFS", "SSTF", "SCAN", "C-SCAN"}
GuiDirections == {"UP", "DOWN"}

Rejected(title) == [ok |-> FALSE, requests |-> <<>>, head |-> 0, error |-> title]
Accepted(reqs, head) == [ok |-> TRUE, requests |-> reqs, head |-> head, error |-> ""]

\* a validator that forgets the empty-list test
ValidateInputsNoEmptyTest(head_text, requests_text) ==
    IF head_text.kind # "int" THEN Rejected("not integers")
    ELSE IF ~(MIN_TRACK <= head_text.val /\ head_text.val <= MAX_TRACK)
    THEN Rejected("head out of range")
    ELSE LET pieces == SelectSeq(requests_text, LAMBDA t : t.kind # "blank")
             reqs == [i \in DOMAIN pieces |-> pieces[i].val]
         IN  IF \E i \in DOMAIN pieces : pieces[i].kind # "int" THEN Rejected("not integers")
             ELSE IF \E i \in DOMAIN reqs : ~(MIN_TRACK <= reqs[i] /\ reqs[i] <= MAX_TRACK)
             THEN Rejected("track out of range")
             ELSE Accepted(reqs, head_text.val)

\* validate_inputs: None after an error box, or (requests, head)
ValidateInputs(head_text, requests_text) ==
    IF head_text.kind # "int" THEN Rejected("not integers")
    ELSE IF ~(MIN_TRACK <= head_text.val /\ head_text.val <= MAX_TRACK)
    THEN Rejected("head out of range")
    ELSE LET pieces == SelectSeq(requests_text, LAMBDA t : t.kind # "blank")
             reqs == [i \in DOMAIN pieces |-> pieces[i].val]
         IN  IF \E i \in DOMAIN pieces : pieces[i].kind # "int" THEN Rejected("not integers")
             ELSE IF reqs = <<>> THEN Rejected("empty request list")
             ELSE IF \E i \in DOMAIN reqs : ~(MIN_TRACK <= reqs[i] /\ reqs[i] <= MAX_TRACK)
             THEN Rejected("track out of range")
             ELSE Accepted(reqs, head_text.val)

\* ---- the state machine ----
Init ==
    /\ \/ initial_requests \in RequestLists /\ initial_head \in Tracks
       \/ initial_requests = DefaultRequests /\ initial_head \in MIN_TRACK..MAX_TRACK
    /\ head_position = Construct(initial_head).head_position
    /\ total_seek_time = Construct(initial_head).total_seek_time
    /\ movement_sequence = Construct(initial_head).movement_sequence
    /\ requests = <<>>
    /\ algorithm = ""
    /\ direction = ""
    /\ current_requests = <<>>
    /\ sequence = <<>>
    /\ idx = 0
    /\ pc = "idle"
    /\ result = Pending
    /\ calls = 0
    /\ head_var = IntText(DefaultHead)
    /\ requests_var = DefaultRequestTexts
    /\ message = ""
    /\ constructed = TRUE

SetEngine(e) ==
    /\ head_position' = e.head_position
    /\ total_seek_time' = e.total_seek_time
    /\ movement_sequence' = e.movement_sequence

Current == Engine(head_position, total_seek_time, movement_sequence)

\* the simulate calls made on the engine are counted up to two: 2 stands for
\* two or more, so that a run may call simulate any number of times
Counted(n) == IF n < 2 THEN n + 1 ELSE n

\* a simulate that refuses a direction other than UP and DOWN for every algorithm
SimulateCallCheckedDirection(alg, dir) ==
    /\ pc \in {"idle", "done", "raised"}
    /\ calls' = Counted(calls)
    /\ algorithm' = alg
    /\ direction' = dir
    /\ SetEngine(Reset(Current, initial_head))
    /\ requests' = initial_requests
    /\ pc' = IF dir \in {"UP", "DOWN"} THEN Dispatch(alg) ELSE "done"
    /\ result' = IF dir \in {"UP", "DOWN"} /\ Dispatch(alg) # "done" THEN Pending ELSE NoneResult
    /\ UNCHANGED <<initial_requests, initial_head, current_requests, sequence, idx>>
    /\ UNCHANGED gui_vars

\* simulate, up to the dispatch on the algorithm name
SimulateCall(alg, dir) ==
    /\ pc \in {"idle", "done", "raised"}
    /\ calls' = Counted(calls)
    /\ algorithm' = alg
    /\ direction' = dir
    /\ SetEngine(Reset(Current, initial_head))
    /\ requests' = initial_requests
    /\ pc' = Dispatch(alg)
    /\ result' = IF Dispatch(alg) = "done" THEN NoneResult ELSE Pending
    /\ UNCHANGED <<initial_requests, initial_head, current_requests, sequence, idx>>
    /\ UNCHANGED gui_vars

FcfsEnter ==
    /\ pc = "fcfs_enter"
    /\ current_requests' = requests
    /\ pc' = "fcfs"
    /\ UNCHANGED <<initial_requests, initial_head, head_position, total_seek_time,
                   movement_sequence, requests, algorithm, direction, sequence, idx,
                   result, calls>>
    /\ UNCHANGED gui_vars

FcfsStep ==
    /\ pc = "fcfs"
    /\ current_requests # <<>>
    /\ LET s == FcfsBody(Current, current_requests)
       IN  SetEngine(s.e) /\ current_requests' = s.cur
    /\ UNCHANGED <<initial_requests, initial_head, requests, algorithm, direction,
                   sequence, idx, pc, result, calls>>
    /\ UNCHANGED gui_vars

SstfEnter ==
    /\ pc = "sstf_enter"
    /\ current_requests' = requests
    /\ pc' = "sstf"
    /\ UNCHANGED <<initial_requests, initial_head, head_position, total_seek_time,
                   movement_sequence, requests, algorithm, direction, sequence, idx,
                   result, calls>>
    /\ UNCHANGED gui_vars

\* an _sstf whose pool is the original list itself, not a copy of it
SstfStepAliased ==
    /\ pc = "sstf"
    /\ current_requests # <<>>
    /\ LET s == SstfBody(Current, current_requests)
       IN  /\ SetEngine(s.e)
           /\ current_requests' = s.cur
           /\ requests' = s.cur
           /\ initial_requests' = s.cur
    /\ UNCHANGED <<initial_head, algorithm, direction, sequence, idx, pc, result, calls>>
    /\ UNCHANGED gui_vars

SstfStep ==
    /\ pc = "sstf"
    /\ current_requests # <<>>
    /\ LET s == SstfBody(Current, current_requests)
       IN  SetEngine(s.e) /\ current_requests' = s.cur
    /\ UNCHANGED <<initial_requests, initial_head, requests, algorithm, direction,
                   sequence, idx, pc, result, calls>>
    /\ UNCHANGED gui_vars

\* _scan_or_cscan up to its loop, for a direction it knows
ScanEnter ==
    /\ pc = "scan_enter"
    /\ direction \in {"UP", "DOWN"}
    /\ sequence' = ScanSequence(algorithm, direction, requests, initial_head)
    /\ idx' = 1
    /\ pc' = "scan"
    /\ UNCHANGED <<initial_requests, initial_head, head_position, total_seek_time,
                   movement_sequence, requests, algorithm, direction, current_requests,
                   result, calls>>
    /\ UNCHANGED gui_vars

\* any other direction leaves current_list unbound: sequence.extend(current_list)
\* raises UnboundLocalError, which simulate does not catch
ScanRaise ==
    /\ pc = "scan_enter"
    /\ direction \notin {"UP", "DOWN"}
    /\ pc' = "raised"
    /\ result' = Raised
    /\ UNCHANGED <<initial_requests, initial_head, head_position, total_seek_time,
                   movement_sequence, requests, algorithm, direction, current_requests,
                   sequence, idx, calls>>
    /\ UNCHANGED gui_vars

ScanStep ==
    /\ pc = "scan"
    /\ idx <= Len(sequence)
    /\ SetEngine(ScanBody(algorithm, Current, sequence, idx))
    /\ idx' = idx + 1
    /\ UNCHANGED <<initial_requests, initial_head, requests, algorithm, direction,
                   current_requests, sequence, pc, result, calls>>
    /\ UNCHANGED gui_vars

LoopDone ==
    \/ pc \in {"fcfs", "sstf"} /\ current_requests = <<>>
    \/ pc = "scan" /\ idx > Len(sequence)

\* the algorithm has returned: simulate computes the metrics and returns
Return ==
    /\ LoopDone
    /\ result' = Returned(Current, initial_requests)
    /\ pc' = "done"
    /\ current_requests' = <<>>
    /\ sequence' = <<>>
    /\ idx' = 0
    /\ UNCHANGED <<initial_requests, initial_head, head_position, total_seek_time,
                   movement_sequence, requests, algorithm, direction, calls>>
    /\ UNCHANGED gui_vars

Next ==
    \/ \E alg \in Algorithms, dir \in Directions : SimulateCall(alg, dir)
    \/ FcfsEnter
    \/ FcfsStep
    \/ SstfEnter
    \/ SstfStep
    \/ ScanEnter
    \/ ScanRaise
    \/ ScanStep
    \/ Return

Spec == Init /\ [][Next]_vars

\* A call that has started runs on: the interpreter executes the next
\* statement of simulate and of the algorithm it called; only the caller
\* decides whether there is a next call.
\* Enter is the first statement of _fcfs and _sstf; Loop is every later step
\* of a call, which is enabled exactly when the call is InLoop.
Enter == FcfsEnter \/ SstfEnter
Loop ==
    \/ FcfsStep
    \/ SstfStep
    \/ ScanEnter
    \/ ScanRaise
    \/ ScanStep
    \/ Return
InLoop == pc \in {"fcfs", "sstf", "scan_enter", "scan"}

\* weak fairness of Enter and of Loop, the latter with ENABLED <<Loop>>_vars
\* written as InLoop
FairSpec ==
    /\ Spec
    /\ WF_vars(Enter)
    /\ ([]<>(~InLoop) \/ []<><<Loop>>_vars)

\* ---- the window ----
\* the window is open, with some text in its fields and no scheduler yet
InitGUI ==
    /\ head_var \in Texts
    /\ requests_var \in RequestTexts
    /\ message = ""
    /\ constructed = FALSE
    /\ initial_requests = <<>>
    /\ initial_head = MIN_TRACK
    /\ head_position = MIN_TRACK
    /\ total_seek_time = 0
    /\ movement_sequence = <<>>
    /\ requests = <<>>
    /\ algorithm = ""
    /\ direction = ""
    /\ current_requests = <<>>
    /\ sequence = <<>>
    /\ idx = 0
    /\ pc = "gui"
    /\ result = Pending
    /\ calls = 0

\* run_simulation up to the end of the dispatch of simulate: validation, and
\* for valid fields DiskScheduler(requests, initial_head).simulate(alg, dir)
RunSimulation(alg, dir) ==
    /\ pc = "gui"
    /\ LET v == ValidateInputs(head_var, requests_var)
       IN  IF v.ok
           THEN /\ constructed' = TRUE
                /\ initial_requests' = v.requests
                /\ initial_head' = v.head
                /\ SetEngine(Reset(Construct(v.head), v.head))
                /\ requests' = v.requests
                /\ algorithm' = alg
                /\ direction' = dir
                /\ calls' = Counted(calls)
                /\ pc' = Dispatch(alg)
                /\ result' = IF Dispatch(alg) = "done" THEN NoneResult ELSE Pending
                /\ UNCHANGED message
           ELSE /\ message' = v.error
                /\ pc' = "rejected"
                /\ UNCHANGED <<constructed, initial_requests, initial_head, head_position,
                               total_seek_time, movement_sequence, requests, algorithm,
                               direction, calls, result>>
    /\ UNCHANGED <<head_var, requests_var, current_requests, sequence, idx>>

\* the end of run_simulation: the results are shown, or the error box
ShowResults ==
    /\ pc = "done"
    /\ message' = IF result.kind = "tuple" THEN "results" ELSE "could not run"
    /\ pc' = "shown"
    /\ UNCHANGED <<initial_requests, initial_head, head_position, total_seek_time,
                   movement_sequence, requests, algorithm, direction, current_requests,
                   sequence, idx, result, calls, head_var, requests_var, constructed>>

NextGUI ==
    \/ \E alg \in GuiAlgorithms, dir \in GuiDirections : RunSimulation(alg, dir)
    \/ FcfsEnter
    \/ FcfsStep
    \/ SstfEnter
    \/ SstfStep
    \/ ScanEnter
    \/ ScanStep
    \/ Return
    \/ ShowResults

SpecGUI == InitGUI /\ [][NextGUI]_vars

TypeOK ==
    /\ pc \in {"idle", "fcfs_enter", "fcfs", "sstf_enter", "sstf", "scan_enter", "scan", "done",
              "raised", "gui", "rejected", "shown"}
    /\ calls \in 0..2
    /\ total_seek_time \in Nat

\* ---- vocabulary of the properties ----
Count(s, x) == Cardinality({i \in DOMAIN s : s[i] = x})
Values(s) == {s[i] : i \in DOMAIN s}
SameMultiset(s, t) == \A x \in Values(s) \cup Values(t) : Count(s, x) = Count(t, x)
Ascending(s) == \A i \in 1..(Len(s) - 1) : s[i] <= s[i + 1]
Descending(s) == \A i \in 1..(Len(s) - 1) : s[i] >= s[i + 1]
\* sum of |s[i+1] - s[i]| over the consecutive pairs of s
SumAbsDiff(s) ==
    LET f[i \in 0..(Len(s) - 1)] == IF i = 0 THEN 0 ELSE f[i - 1] + Abs(s[i + 1] - s[i])
    IN  f[Len(s) - 1]
Succeeded == pc = "done" /\ result.kind = "tuple"
\* the boundary entries each algorithm is specified to append
SpecBoundaries ==
    IF algorithm = "SCAN" THEN (IF direction = "UP" THEN <<MAX_TRACK>> ELSE <<MIN_TRACK>>)
    ELSE IF algorithm = "C-SCAN"
    THEN (IF direction = "UP" THEN <<MAX_TRACK, MIN_TRACK>> ELSE <<MIN_TRACK, MAX_TRACK>>)
    ELSE <<>>
\* the requests of the first and of the second leg of a sweep
FirstLeg ==
    SelectSeq(initial_requests,
              LAMBDA r : IF direction = "UP" THEN r >= initial_head ELSE r < initial_head)
SecondLeg ==
    SelectSeq(initial_requests,
              LAMBDA r : IF direction = "UP" THEN r < initial_head ELSE r >= initial_head)
\* the parts of a returned movement sequence m of a sweep with b boundary entries
LegOne(m) == SubSeq(m, 2, 1 + Len(FirstLeg))
Turn(m, b) == SubSeq(m, 2 + Len(FirstLeg), 1 + Len(FirstLeg) + b)
LegTwo(m, b) == SubSeq(m, 2 + Len(FirstLeg) + b, Len(m))

\* C1: the returned movement sequence is, as a multiset, the initial head, the
\* original requests and the boundary entries of the algorithm: no request is
\* dropped and none is serviced more often than it was submitted.
C1_RequestsArePermuted ==
    Succeeded =>
        SameMultiset(result.movement_sequence,
                     <<initial_head>> \o initial_requests \o SpecBoundaries)

\* a sweep over duplicates, a request on the head and a request on a boundary
C1_Witness ==
    /\ Succeeded
    /\ algorithm = "C-SCAN"
    /\ \E i, j \in DOMAIN initial_requests : i # j /\ initial_requests[i] = initial_requests[j]
    /\ initial_head \in Values(initial_requests)
    /\ MIN_TRACK \in Values(initial_requests)

\* C2: the C-SCAN total is the sum of |next - current| over all consecutive
\* pairs of the movement sequence but the one wrap pair between the two
\* appended boundary entries; every other transition is charged in full.
C2_OnlyTheWrapIsFree ==
    (Succeeded /\ algorithm = "C-SCAN") =>
        LET m == result.movement_sequence
            w == 2 + Len(FirstLeg)
        IN  result.total_seek = SumAbsDiff(m) - Abs(m[w + 1] - m[w])

\* C3: for FCFS, SSTF and SCAN the total is the sum of the absolute differences
\* of consecutive entries of the movement sequence, and is not negative.
C3_TotalIsSumOfDistances ==
    (Succeeded /\ algorithm \in {"FCFS", "SSTF", "SCAN"}) =>
        /\ result.total_seek = SumAbsDiff(result.movement_sequence)
        /\ result.total_seek >= 0

\* a SCAN run that crosses the whole disk in one transition
C3_Witness ==
    /\ Succeeded
    /\ algorithm = "SCAN"
    /\ \E i \in 1..(Len(result.movement_sequence) - 1) :
          /\ result.movement_sequence[i] = MIN_TRACK
          /\ result.movement_sequence[i + 1] = MAX_TRACK
    /\ result.total_seek > 0

\* C4: every SSTF step services the earliest entry of the remaining sequence
\* among those of least distance to the head, and removes exactly that entry.
C4_SstfPicksNearestEarliest ==
    [][(pc = "sstf" /\ current_requests # <<>>) =>
          \E k \in DOMAIN current_requests :
             /\ \A j \in DOMAIN current_requests :
                   Abs(current_requests[k] - head_position) <= Abs(current_requests[j] - head_position)
             /\ \A j \in 1..(k - 1) :
                   Abs(current_requests[j] - head_position) > Abs(current_requests[k] - head_position)
             /\ head_position' = current_requests[k]
             /\ movement_sequence' = Append(movement_sequence, current_requests[k])
             /\ current_requests' = SubSeq(current_requests, 1, k - 1)
                                      \o SubSeq(current_requests, k + 1, Len(current_requests))]_vars

\* an SSTF step has just chosen between two different tracks of the same,
\* least distance: the one it serviced and one that is still waiting
C4_Witness ==
    /\ pc = "sstf"
    /\ Len(movement_sequence) >= 2
    /\ LET prev == movement_sequence[Len(movement_sequence) - 1]
       IN  /\ \E i \in DOMAIN current_requests :
                /\ current_requests[i] # head_position
                /\ Abs(current_requests[i] - prev) = Abs(head_position - prev)
           /\ \A k \in DOMAIN current_requests :
                Abs(head_position - prev) <= Abs(current_requests[k] - prev)

\* C5: SCAN returns [head] + first leg + [boundary] + second leg, where UP
\* takes the requests >= head ascending, MAX_TRACK, then those < head
\* descending, and DOWN takes those < head descending, MIN_TRACK, then those
\* >= head ascending.
C5_ScanOrder ==
    (Succeeded /\ algorithm = "SCAN") =>
        LET m == result.movement_sequence
        IN  /\ Len(m) = Len(initial_requests) + 2
            /\ m[1] = initial_head
            /\ SameMultiset(LegOne(m), FirstLeg)
            /\ SameMultiset(LegTwo(m, 1), SecondLeg)
            /\ IF direction = "UP"
               THEN /\ Ascending(LegOne(m))
                    /\ Turn(m, 1) = <<MAX_TRACK>>
                    /\ Descending(LegTwo(m, 1))
               ELSE /\ Descending(LegOne(m))
                    /\ Turn(m, 1) = <<MIN_TRACK>>
                    /\ Ascending(LegTwo(m, 1))

\* a SCAN run whose second leg holds two different tracks, and one whose
\* first leg is empty
C5_Witness ==
    /\ Succeeded
    /\ algorithm = "SCAN"
    /\ Cardinality(Values(SecondLeg)) >= 2
    /\ FirstLeg = <<>>

\* C6: C-SCAN returns [head] + first leg + the two boundaries + second leg, the
\* second leg in the direction of the first: UP is ascending, MAX_TRACK,
\* MIN_TRACK, ascending; DOWN is descending, MIN_TRACK, MAX_TRACK, descending.
C6_CscanOrder ==
    (Succeeded /\ algorithm = "C-SCAN") =>
        LET m == result.movement_sequence
        IN  /\ Len(m) = Len(initial_requests) + 3
            /\ m[1] = initial_head
            /\ SameMultiset(LegOne(m), FirstLeg)
            /\ SameMultiset(LegTwo(m, 2), SecondLeg)
            /\ IF direction = "UP"
               THEN /\ Ascending(LegOne(m))
                    /\ Turn(m, 2) = <<MAX_TRACK, MIN_TRACK>>
                    /\ Ascending(LegTwo(m, 2))
               ELSE /\ Descending(LegOne(m))
                    /\ Turn(m, 2) = <<MIN_TRACK, MAX_TRACK>>
                    /\ Descending(LegTwo(m, 2))

\* a C-SCAN run downwards whose second leg holds two different tracks
C6_Witness ==
    /\ Succeeded
    /\ algorithm = "C-SCAN"
    /\ direction = "DOWN"
    /\ Cardinality(Values(SecondLeg)) >= 2
    /\ FirstLeg # <<>>

\* C7: FCFS returns the initial head followed by the requests in input order.
C7_FcfsInputOrder ==
    (Succeeded /\ algorithm = "FCFS") =>
        result.movement_sequence = <<initial_head>> \o initial_requests

\* an FCFS run over requests that are not in sorted order
C7_Witness ==
    /\ Succeeded
    /\ algorithm = "FCFS"
    /\ Len(initial_requests) >= 2
    /\ ~Ascending(initial_requests)
    /\ ~Descending(initial_requests)

\* C8: whatever calls came before, a simulate call ends as the same call on a
\* newly constructed engine with the same requests and head ends.
C8_IndependentOfHistory ==
    pc \in {"done", "raised"} =>
        result = FreshSimulate(initial_requests, initial_head, algorithm, direction)

\* a second call on the same engine that accumulated a seek distance
C8_Witness ==
    /\ Succeeded
    /\ calls >= 2
    /\ result.total_seek > 0

\* C9: a call with an unknown algorithm name returns the four Nones and leaves
\* the engine reset, with no request serviced.
C9_UnknownAlgorithmFails ==
    (pc = "done" /\ algorithm \notin {"FCFS", "SSTF", "SCAN", "C-SCAN"}) =>
        /\ result = NoneResult
        /\ head_position = initial_head
        /\ total_seek_time = 0
        /\ movement_sequence = <<initial_head>>

\* an unknown name given to an engine that holds requests and was run before
C9_Witness ==
    /\ pc = "done"
    /\ algorithm = "LOOK"
    /\ initial_requests # <<>>
    /\ calls >= 2

\* C10: the movement sequence has 1 + n entries for FCFS and SSTF, 1 + n + 1
\* for SCAN and 1 + n + 2 for C-SCAN.
C10_SequenceLength ==
    Succeeded =>
        Len(result.movement_sequence) =
            1 + Len(initial_requests)
              + (IF algorithm = "SCAN" THEN 1 ELSE IF algorithm = "C-SCAN" THEN 2 ELSE 0)

\* a C-SCAN run with a request on the head and a request on a boundary
C10_Witness ==
    /\ Succeeded
    /\ algorithm = "C-SCAN"
    /\ initial_head \in Values(initial_requests)
    /\ MAX_TRACK \in Values(initial_requests)
    /\ initial_head # MAX_TRACK

\* x <= y for naturals given by their bits, most significant first, no leading zero
BitsLeq(x, y) ==
    \/ Len(x) < Len(y)
    \/ /\ Len(x) = Len(y)
       /\ \/ x = y
          \/ \E i \in 1..Len(x) : x[i] < y[i] /\ \A j \in 1..(i - 1) : x[j] = y[j]
\* f is a double within half a unit in its last place of a / b, for a, b > 0:
\* |2 * sig * b - a * 2^(1 - exp)| <= b
NearestDouble(f, a, b) ==
    /\ Len(f.sig) = Precision
    /\ f.sig[1] = 1
    /\ f.exp <= 0
    /\ LET twice == <<0>> \o Reverse(f.sig)
           x == [i \in 1..(1 - f.exp) |-> 0] \o Reverse(NatBits(a))
       IN  /\ BitsLeq(Reverse(MulAdd(twice, b, 0)), Reverse(MulAdd(x, 1, b)))
           /\ BitsLeq(Reverse(x), Reverse(MulAdd(twice, b, b)))

\* C11 as stated: with n > 0 requests, average * n = total; with n = 0 the
\* average is 0.
C11_AverageTimesCountIsTotal ==
    Succeeded =>
        IF Len(initial_requests) > 0
        THEN FloatTimes(result.avg_seek, Len(initial_requests)) = FromInt(result.total_seek)
        ELSE result.avg_seek = Zero

\* C11 as amended: with n > 0 requests the average is the double nearest to
\* total / n, so that average * n is total up to rounding only; with n = 0 the
\* call succeeds with average 0.
C11_AverageIsNearestDouble ==
    Succeeded =>
        IF Len(initial_requests) > 0 /\ result.total_seek > 0
        THEN NearestDouble(result.avg_seek, result.total_seek, Len(initial_requests))
        ELSE result.avg_seek = Zero

\* a run whose average, multiplied by the request count, misses the total
C11_Witness ==
    /\ Succeeded
    /\ Len(initial_requests) > 0
    /\ result.total_seek % Len(initial_requests) # 0
    /\ FloatTimes(result.avg_seek, Len(initial_requests)) # FromInt(result.total_seek)

\* C12 as stated: with total > 0, throughput * (total * time unit) = n; with
\* total = 0 the throughput is 0.
C12_ThroughputTimesTimeIsCount ==
    Succeeded =>
        IF result.total_seek > 0
        THEN FloatTimes(result.throughput, result.total_seek * SEEK_TIME_PER_TRACK)
                 = FromInt(Len(initial_requests))
        ELSE result.throughput = Zero

\* C12 as amended: with total > 0 the throughput is the double nearest to
\* n / (total * time unit), so that the product gives n back up to rounding
\* only; with total = 0 the throughput is 0, whatever n.
C12_ThroughputIsNearestDouble ==
    Succeeded =>
        IF result.total_seek > 0 /\ Len(initial_requests) > 0
        THEN NearestDouble(result.throughput, Len(initial_requests),
                           result.total_seek * SEEK_TIME_PER_TRACK)
        ELSE result.throughput = Zero

\* a run whose throughput, multiplied by the elapsed time, misses the count
C12_Witness ==
    /\ Succeeded
    /\ result.total_seek > 0
    /\ FloatTimes(result.throughput, result.total_seek * SEEK_TIME_PER_TRACK)
           # FromInt(Len(initial_requests))

\* C13: a successful call returns a non-empty movement sequence whose first
\* entry is the initial head.
C13_StartsAtInitialHead ==
    Succeeded =>
        /\ Len(result.movement_sequence) >= 1
        /\ result.movement_sequence[1] = initial_head

\* a later call on the same engine whose head ended away from the initial head
C13_Witness ==
    /\ Succeeded
    /\ calls >= 2
    /\ Len(result.movement_sequence) >= 3
    /\ head_position # initial_head

\* C14: after a call with a known algorithm the head is on the last entry of
\* the engine's movement sequence, which is the sequence returned, and the
\* seek accumulator is the total returned.
C14_HeadIsLastEntry ==
    Succeeded =>
        /\ head_position = movement_sequence[Len(movement_sequence)]
        /\ movement_sequence = result.movement_sequence
        /\ total_seek_time = result.total_seek

\* a C-SCAN run that ended away from the initial head after a wrap
C14_Witness ==
    /\ Succeeded
    /\ algorithm = "C-SCAN"
    /\ head_position \notin {initial_head, MIN_TRACK, MAX_TRACK}
    /\ total_seek_time > 0

\* C15: with the head and the requests in [MIN_TRACK, MAX_TRACK], every entry
\* of the movement sequence and every head position of a run is in range.
C15_TracksInRange ==
    (/\ initial_head \in MIN_TRACK..MAX_TRACK
     /\ \A i \in DOMAIN initial_requests : initial_requests[i] \in MIN_TRACK..MAX_TRACK) =>
        /\ head_position \in MIN_TRACK..MAX_TRACK
        /\ \A i \in DOMAIN movement_sequence : movement_sequence[i] \in MIN_TRACK..MAX_TRACK

\* a sweep standing on a boundary track that nobody requested
C15_Witness ==
    /\ pc = "scan"
    /\ idx > 1
    /\ head_position = MAX_TRACK
    /\ MAX_TRACK \notin Values(initial_requests)
    /\ initial_head # MAX_TRACK

\* C16: no step of any call changes the original request list, and from the
\* first call on the engine's working list is a copy equal to it: only the
\* local pool of an algorithm shrinks.
C16_OriginalRequestsKept ==
    [][/\ initial_requests' = initial_requests
       /\ pc' # "idle" => requests' = initial_requests]_vars

\* an SSTF run that has taken entries out of its pool
C16_Witness ==
    /\ pc = "sstf"
    /\ Len(current_requests) < Len(initial_requests)
    /\ current_requests # <<>>
    /\ requests = initial_requests

\* C17: FCFS and SSTF end as the same call with any other direction ends on a
\* new engine, whether the direction is UP, DOWN or anything else.
C17_DirectionIgnored ==
    (pc \in {"done", "raised"} /\ algorithm \in {"FCFS", "SSTF"}) =>
        \A d \in Directions :
            result = FreshSimulate(initial_requests, initial_head, algorithm, d)

\* an SSTF call given a direction that is neither UP nor DOWN
C17_Witness ==
    /\ Succeeded
    /\ algorithm = "SSTF"
    /\ direction = "LEFT"
    /\ Len(initial_requests) >= 2
    /\ result.total_seek > 0

\* C19: SSTF on the requests 82,170,43,140,24,16,190 with head 50 returns the
\* movement sequence 50,43,24,16,82,140,170,190 and total 208.
C19_SstfExample ==
    (/\ Succeeded
     /\ algorithm = "SSTF"
     /\ initial_requests = <<82, 170, 43, 140, 24, 16, 190>>
     /\ initial_head = 50) =>
        /\ result.movement_sequence = <<50, 43, 24, 16, 82, 140, 170, 190>>
        /\ result.total_seek = 208

\* the SSTF run of the example has returned
C19_Witness ==
    /\ Succeeded
    /\ algorithm = "SSTF"
    /\ initial_requests = <<82, 170, 43, 140, 24, 16, 190>>
    /\ initial_head = 50

\* C20: C-SCAN upwards on the same requests with head 50 on tracks 0..199
\* returns 50,82,140,170,190,199,0,16,24,43 and total 192, the move from 199
\* to 0 costing nothing.
C20_CscanExample ==
    (/\ Succeeded
     /\ algorithm = "C-SCAN"
     /\ direction = "UP"
     /\ initial_requests = <<82, 170, 43, 140, 24, 16, 190>>
     /\ initial_head = 50) =>
        /\ result.movement_sequence = <<50, 82, 140, 170, 190, 199, 0, 16, 24, 43>>
        /\ result.total_seek = 192
        /\ MIN_TRACK = 0
        /\ MAX_TRACK = 199

\* the C-SCAN run of the example has returned
C20_Witness ==
    /\ Succeeded
    /\ algorithm = "C-SCAN"
    /\ direction = "UP"
    /\ initial_requests = <<82, 170, 43, 140, 24, 16, 190>>
    /\ initial_head = 50

\* the fields hold what the validator is specified to let through: an integer
\* head in range and, between the commas, at least one entry, every entry an
\* integer in range
ValidFields ==
    LET entries == SelectSeq(requests_var, LAMBDA t : t # BlankText)
    IN  /\ head_var.kind = "int"
        /\ head_var.val \in MIN_TRACK..MAX_TRACK
        /\ entries # <<>>
        /\ \A i \in DOMAIN entries :
              entries[i].kind = "int" /\ entries[i].val \in MIN_TRACK..MAX_TRACK

\* C18: once run_simulation has acted, an engine has been constructed and
\* called exactly when the fields are valid, and then on the head and the
\* requests of the fields; otherwise an error was shown and no engine was
\* constructed or called.
C18_ValidatorGuardsEngine ==
    pc # "gui" =>
        IF ValidFields
        THEN /\ constructed
             /\ calls = 1
             /\ initial_head = head_var.val
             /\ Len(initial_requests) >= 1
             /\ message \notin {"not integers", "head out of range", "empty request list",
                                "track out of range"}
        ELSE /\ ~constructed
             /\ calls = 0
             /\ pc = "rejected"
             /\ message \in {"not integers", "head out of range", "empty request list",
                             "track out of range"}

\* fields with a valid head and nothing but blanks between the commas were
\* turned down
C18_Witness ==
    /\ pc = "rejected"
    /\ head_var.kind = "int"
    /\ head_var.val \in MIN_TRACK..MAX_TRACK
    /\ \A i \in DOMAIN requests_var : requests_var[i] = BlankText
    /\ message = "empty request list"

\* C21: SCAN upwards on the requests 82,170,43,140,24,16,190 with head 50 on
\* tracks 0..199 returns the movement sequence 50,82,140,170,190,199,43,24,16
\* and total 332.
C21_ScanExample ==
    (/\ Succeeded
     /\ algorithm = "SCAN"
     /\ direction = "UP"
     /\ initial_requests = <<82, 170, 43, 140, 24, 16, 190>>
     /\ initial_head = 50) =>
        /\ result.movement_sequence = <<50, 82, 140, 170, 190, 199, 43, 24, 16>>
        /\ result.total_seek = 332
        /\ result.total_seek = 32 + 58 + 30 + 20 + 9 + 156 + 19 + 8
        /\ MIN_TRACK = 0
        /\ MAX_TRACK = 199

\* the SCAN run of the example has returned
C21_Witness ==
    /\ Succeeded
    /\ algorithm = "SCAN"
    /\ direction = "UP"
    /\ initial_requests = <<82, 170, 43, 140, 24, 16, 190>>
    /\ initial_head = 50
    /\ Len(result.movement_sequence) = 9

\* C22: FCFS on the requests 82,170,43,140,24,16,190 with head 50 returns
\* total 642.
C22_FcfsExample ==
    (/\ Succeeded
     /\ algorithm = "FCFS"
     /\ initial_requests = <<82, 170, 43, 140, 24, 16, 190>>
     /\ initial_head = 50) =>
        result.total_seek = 642

\* the FCFS run of the example has returned
C22_Witness ==
    /\ Succeeded
    /\ algorithm = "FCFS"
    /\ initial_requests = <<82, 170, 43, 140, 24, 16, 190>>
    /\ initial_head = 50
    /\ result.total_seek > 0

\* C23: a SCAN or C-SCAN call with a direction other than UP and DOWN ends
\* with the failure result, as a call with an unknown algorithm does: it
\* raises no fault and returns no movement sequence.
C23_BadDirectionFails ==
    (/\ algorithm \in {"SCAN", "C-SCAN"}
     /\ direction \notin {"UP", "DOWN"}
     /\ pc \in {"done", "raised"}) =>
        /\ pc = "done"
        /\ result = NoneResult

\* a call is inside simulate / it has come back, by return or by exception
Running == pc \in {"fcfs_enter", "fcfs", "sstf_enter", "sstf", "scan_enter", "scan"}
Ended == pc \in {"done", "raised"}

\* C24: every simulate call terminates. Each FCFS and SSTF iteration takes
\* exactly one entry from the remaining pool, so that the iterations made and
\* the entries left always add up to the n requests; each SCAN/C-SCAN
\* iteration moves one entry forward in the precomputed sequence, never
\* beyond its end; and a call that is running always ends.
C24_SimulateTerminates ==
    /\ [][pc' \in {"fcfs", "sstf"} =>
             (Len(movement_sequence') - 1) + Len(current_requests') = Len(requests')]_vars
    /\ [][pc' = "scan" =>
             /\ Len(movement_sequence') = idx'
             /\ idx' <= Len(sequence') + 1
             /\ Len(sequence') <= Len(requests') + 2]_vars
    /\ [][(pc \in {"fcfs", "sstf"} /\ pc' = pc) =>
             /\ Len(current_requests') = Len(current_requests) - 1
             /\ Len(movement_sequence') = Len(movement_sequence) + 1]_vars
    /\ [][(pc = "scan" /\ pc' = pc) =>
             /\ idx' = idx + 1
             /\ sequence' = sequence]_vars
    /\ [][(pc \in {"fcfs", "sstf"} /\ pc' = "done") =>
             Len(movement_sequence) - 1 = Len(requests)]_vars
    /\ [][(pc = "scan" /\ pc' = "done") =>
             Len(movement_sequence) - 1 = Len(sequence)]_vars
    /\ (Running ~> Ended)

\* an SSTF call over a list that holds the same track twice has returned
C24_Witness ==
    /\ Succeeded
    /\ algorithm = "SSTF"
    /\ Len(requests) >= 2
    /\ \E i, j \in DOMAIN requests : i < j /\ requests[i] = requests[j]
    /\ Len(result.movement_sequence) = Len(requests) + 1

\* the smallest and the largest entry of a non-empty sequence
MinOf(s) == CHOOSE x \in Values(s) : \A y \in Values(s) : x <= y
MaxOf(s) == CHOOSE x \in Values(s) : \A y \in Values(s) : x >= y

\* C25: for a head and requests within MIN_TRACK..MAX_TRACK the SCAN total is
\* a closed form of the head and the extreme request of the far side: upwards
\* (MAX_TRACK - head), plus (MAX_TRACK - smallest request) when some request
\* is below the head; downwards (head - MIN_TRACK), plus (largest request -
\* MIN_TRACK) when some request is at or above the head. The boundary is
\* always visited.
C25_ScanClosedForm ==
    (/\ Succeeded
     /\ algorithm = "SCAN"
     /\ initial_head \in MIN_TRACK..MAX_TRACK
     /\ \A i \in DOMAIN initial_requests : initial_requests[i] \in MIN_TRACK..MAX_TRACK) =>
        /\ direction = "UP" =>
              /\ result.total_seek =
                    IF \E i \in DOMAIN initial_requests : initial_requests[i] < initial_head
                    THEN (MAX_TRACK - initial_head) + (MAX_TRACK - MinOf(initial_requests))
                    ELSE MAX_TRACK - initial_head
              /\ MAX_TRACK \in Values(result.movement_sequence)
        /\ direction = "DOWN" =>
              /\ result.total_seek =
                    IF \E i \in DOMAIN initial_requests : initial_requests[i] >= initial_head
                    THEN (initial_head - MIN_TRACK) + (MaxOf(initial_requests) - MIN_TRACK)
                    ELSE initial_head - MIN_TRACK
              /\ MIN_TRACK \in Values(result.movement_sequence)

\* a SCAN run upwards has returned whose requests all lie between the head
\* and the boundary, none of them on the boundary: the head went on to it
C25_Witness ==
    /\ Succeeded
    /\ algorithm = "SCAN"
    /\ direction = "UP"
    /\ initial_requests # <<>>
    /\ \A i \in DOMAIN initial_requests :
          initial_requests[i] > initial_head /\ initial_requests[i] < MAX_TRACK
    /\ result.total_seek = MAX_TRACK - initial_head
    /\ result.total_seek > MaxOf(initial_requests) - initial_head

\* C26: the DiskScheduler of disk_logic.py and the one of disk_sheduling.py
\* return the same for every request list, head, algorithm and direction UP
\* or DOWN: the same movement sequence, total, average and throughput (or the
\* same failure result); the second leg of SCAN of both runs from the
\* boundary outwards.
C26_ImplementationsAgree ==
    (pc = "done" /\ direction \in {"UP", "DOWN"}) =>
        LET other == ShedulingSimulate(initial_requests, initial_head, algorithm, direction)
        IN  /\ result.kind = other.kind
            /\ result.movement_sequence = other.movement_sequence
            /\ result.total_seek = other.total_seek
            /\ result.avg_seek = other.avg_seek
            /\ result.throughput = other.throughput
            /\ (Succeeded /\ algorithm = "SCAN") =>
                  LET leg == LegTwo(other.movement_sequence, 1)
                  IN  IF direction = "UP" THEN Descending(leg) ELSE Ascending(leg)

\* a SCAN run has returned whose second leg holds two different tracks
C26_Witness ==
    /\ Succeeded
    /\ algorithm = "SCAN"
    /\ direction \in {"UP", "DOWN"}
    /\ Cardinality(Values(SecondLeg)) >= 2
    /\ ShedulingSimulate(initial_requests, initial_head, algorithm, direction).movement_sequence
          = movement_sequence
====
